---- MODULE Spec2Model ----
(***************************************************************************)
(* Model of deeplearning/data_augmentation.py: the augmentation transforms *)
(* for an M x N time-series matrix X.  One behaviour is one call of one    *)
(* transform.  Arrays are functions over 0-based index ranges, as in the   *)
(* source.  Gaussian and uniform real draws are not valued: for the        *)
(* transforms that use them the model computes the array shapes numpy      *)
(* produces (or the exception it raises).  Integer draws (np.random.       *)
(* randint, np.random.permutation) are enumerated.  Linear interpolation   *)
(* is computed in exact rationals <<numerator, denominator>>.              *)
(***************************************************************************)
EXTENDS Integers, Sequences, FiniteSets, Bags

VARIABLES op, X, nPerm, minSegLength, nSample, knot,
          pc, err, idx, segs, tt, xx, X_new, outShape

vars == <<op, X, nPerm, minSegLength, nSample, knot,
          pc, err, idx, segs, tt, xx, X_new, outShape>>

\* ---------------------------------------------------------------- bounds
MaxM == 5
MaxN == 4
MaxPerm == 3
MaxMinSeg == 2
MaxSample == 4
MaxKnot == 3

\* ------------------------------------------------------ program constants
\* generate_random_curves(X, sigma=0.2, knot=4)
DefaultKnot == 4
\* the three channels cs_x, cs_y, cs_z / columns 0, 1, 2 addressed by name
Channels == 3

Transforms == {"jitter", "scaling", "generate_random_curves", "magnitude_warp",
               "time_warp", "rotation", "permutation", "rand_sampling"}

\* ------------------------------------------------------------ array helpers
Size(f) == Cardinality(DOMAIN f)

\* numpy's A.shape for a 2-D array held as rows of columns
Shape(A) == <<Size(A), IF Size(A) = 0 THEN 0 ELSE Size(A[0])>>

\* np.zeros((r, c))
Zeros(r, c) == [t \in 0..(r - 1) |-> [k \in 0..(c - 1) |-> 0]]

Min(S) == CHOOSE v \in S : \A w \in S : v <= w

Max(S) == CHOOSE v \in S : \A w \in S : v >= w

\* the input windows the calls are tried on: one with pairwise distinct rows
\* and non-linear channels, one whose rows repeat
Signals == {"distinct", "repeating"}

Sample(k, t, c) ==
  IF k = "distinct" THEN t * t + c * t + c ELSE (t % 2) * (c + 1) + c

Signal(k, m, n) == [t \in 0..(m - 1) |-> [c \in 0..(n - 1) |-> Sample(k, t, c)]]

M == Shape(X)[1]
N == Shape(X)[2]

\* ------------------------------------------------------- numpy shape algebra
NoShape == <<>>

\* shape of a (op) b under numpy broadcasting of two 2-D arrays
BroadcastDim(a, b) == IF a = b THEN a ELSE IF a = 1 THEN b ELSE IF b = 1 THEN a ELSE -1

Broadcast(a, b) ==
  IF BroadcastDim(a[1], b[1]) = -1 \/ BroadcastDim(a[2], b[2]) = -1
  THEN NoShape
  ELSE <<BroadcastDim(a[1], b[1]), BroadcastDim(a[2], b[2])>>

\* shape of np.matmul(a, b) for 2-D arrays
MatMul(a, b) == IF a[2] = b[1] THEN <<a[1], b[2]>> ELSE NoShape

\* ------------------------------------------------------------ integer draws
RECURSIVE Insert(_, _)
Insert(v, s) ==
  IF s = <<>> THEN <<v>>
  ELSE IF v <= Head(s) THEN <<v>> \o s
  ELSE <<Head(s)>> \o Insert(v, Tail(s))

RECURSIVE Sort(_)
\* np.sort of a 1-D integer array
Sort(s) == IF s = <<>> THEN <<>> ELSE Insert(Head(s), Sort(Tail(s)))

\* np.random.randint(low, high, size) raises ValueError: a negative size, or
\* low >= high when at least one value is asked for (a size of 0 returns the
\* empty array before the bounds are looked at)
RandIntFails(low, high, size) == size < 0 \/ (size > 0 /\ low >= high)

\* the arrays np.random.randint(low, high, size) can return
RandInt(low, high, size) == [1..size -> low..(high - 1)]

\* mutant: the draws used as drawn, np.sort left out
SortedDraws_Unsorted(low, high, size) == RandInt(low, high, size)

\* the arrays np.sort(np.random.randint(low, high, size)) can return: np.sort
\* maps the draws onto the draws it leaves as they are
SortedDraws(low, high, size) == {d \in RandInt(low, high, size) : Sort(d) = d}

\* the arrays np.random.permutation(n) can return
RandomPermutation(n) ==
  {f \in [0..(n - 1) -> 0..(n - 1)] : \A i, j \in 0..(n - 1) : f[i] = f[j] => i = j}

Unset == <<>>

\* the state at the call of one transform on one of the windows `signals`
\* with one of the channel counts `channels`
InitWith(signals, channels) ==
  /\ op \in Transforms
  /\ \E k \in signals, m \in 1..MaxM, n \in channels : X = Signal(k, m, n)
  /\ nPerm \in (IF op = "permutation" THEN 1..MaxPerm ELSE {0})
  /\ minSegLength \in (IF op = "permutation" THEN 0..MaxMinSeg ELSE {0})
  /\ nSample \in (IF op = "rand_sampling" THEN 1..MaxSample ELSE {0})
  /\ knot \in (IF op = "generate_random_curves" THEN 0..MaxKnot ELSE {DefaultKnot})
  /\ pc = "call"
  /\ err = ""
  /\ idx = Unset
  /\ segs = Unset
  /\ tt = Unset
  /\ xx = Unset
  /\ X_new = Unset
  /\ outShape = NoShape

Init == InitWith(Signals, 1..MaxN)

Args == <<op, X, nPerm, minSegLength, nSample, knot>>

\* the call returns an array of shape s, or raises when s is no shape
ReturnShape(s) ==
  /\ pc' = IF s = NoShape THEN "error" ELSE "done"
  /\ err' = IF s = NoShape THEN "ValueError" ELSE ""
  /\ outShape' = s

\* X + noise, noise of X.shape
jitter ==
  /\ op = "jitter" /\ pc = "call"
  /\ ReturnShape(Broadcast(Shape(X), Shape(X)))
  /\ UNCHANGED <<Args, idx, segs, tt, xx, X_new>>

\* X * (ones((M,1)) @ sc_factor), sc_factor of shape (1, N)
scaling ==
  /\ op = "scaling" /\ pc = "call"
  /\ LET sc_factor == <<1, N>>
         noise == MatMul(<<M, 1>>, sc_factor)
     IN ReturnShape(IF noise = NoShape THEN NoShape ELSE Broadcast(Shape(X), noise))
  /\ UNCHANGED <<Args, idx, segs, tt, xx, X_new>>

\* np.arange(0, M, (M-1)/(knot+1)): the number of x-locations, the ceiling of
\* M / step for the step (M-1)/(knot+1)
ArangeLen(m, k) == (m * (k + 1) + (m - 1) - 1) \div (m - 1)

\* the x-locations, in units of 1/(knot+1): element i is i * step
Arange(m, k) == [i \in 0..(ArangeLen(m, k) - 1) |-> i * (m - 1)]

\* generate_random_curves(X, sigma, knot): the exception raised ("" when none)
CurveError(m, n, k) ==
  IF m - 1 = 0 THEN "ZeroDivisionError"             \* arange with a step of 0
  ELSE IF ArangeLen(m, k) # k + 2 THEN "ValueError" \* CubicSpline: len(x) # len(y)
  ELSE IF n < Channels THEN "IndexError"            \* xx[:,1], xx[:,2]
  ELSE ""

\* the shape of the curve returned: np.array([cs_x, cs_y, cs_z]).transpose()
CurveShape(m) == <<m, Channels>>

generate_random_curves ==
  /\ op = "generate_random_curves" /\ pc = "call"
  /\ xx' = IF M - 1 = 0 THEN Unset ELSE Arange(M, knot)
  /\ err' = CurveError(M, N, knot)
  /\ pc' = IF err' = "" THEN "done" ELSE "error"
  /\ outShape' = IF err' = "" THEN CurveShape(M) ELSE NoShape
  /\ UNCHANGED <<Args, idx, segs, tt, X_new>>

\* X * generate_random_curves(X, sigma), knot left at its default
magnitude_warp ==
  /\ op = "magnitude_warp" /\ pc = "call"
  /\ xx' = IF M - 1 = 0 THEN Unset ELSE Arange(M, knot)
  /\ LET e == CurveError(M, N, knot)
         s == IF e = "" THEN Broadcast(Shape(X), CurveShape(M)) ELSE NoShape
     IN /\ err' = IF e # "" THEN e ELSE IF s = NoShape THEN "ValueError" ELSE ""
        /\ pc' = IF s = NoShape THEN "error" ELSE "done"
        /\ outShape' = s
  /\ UNCHANGED <<Args, idx, segs, tt, X_new>>

\* time_warp calls distort_timesteps, whose first statement calls
\* the name GenerateRandomCurves, a name the module does not define
time_warp ==
  /\ op = "time_warp" /\ pc = "call"
  /\ err' = "NameError"
  /\ pc' = "error"
  /\ UNCHANGED <<Args, idx, segs, tt, xx, X_new, outShape>>

\* np.matmul(X, axangle2mat(axis, angle)), axis of size N: axangle2mat unpacks
\* the axis into x, y, z and returns a 3 x 3 matrix
rotation ==
  /\ op = "rotation" /\ pc = "call"
  /\ LET s == IF N # Channels THEN NoShape ELSE MatMul(Shape(X), <<Channels, Channels>>)
     IN ReturnShape(s)
  /\ UNCHANGED <<Args, idx, segs, tt, xx, X_new>>

\* ------------------------------------------------------------- permutation
\* segs after one pass of the loop body: zeros(nPerm+1), the sorted cut-points
\* in segs[1:-1], then M in segs[-1]
Boundaries(cuts, n, m) ==
  [i \in 0..n |-> IF i = n THEN m ELSE IF i = 0 THEN 0 ELSE cuts[i]]

\* mutant: the longest segment tested instead of the shortest (np.max for np.min)
Accepted_AnySegment(s, n, minLen) == Max({s[i + 1] - s[i] : i \in 0..(n - 1)}) > minLen

\* mutant: segments of exactly minSegLength accepted (>= for >)
Accepted_NonStrict(s, n, minLen) == Min({s[i + 1] - s[i] : i \in 0..(n - 1)}) >= minLen

\* mutant: segments of minSegLength + 1 rejected (an off-by-one in the test)
Accepted_OffByOne(s, n, minLen) == Min({s[i + 1] - s[i] : i \in 0..(n - 1)}) > minLen + 1

\* np.min(segs[1:] - segs[0:-1]) > minSegLength
Accepted(s, n, minLen) == Min({s[i + 1] - s[i] : i \in 0..(n - 1)}) > minLen

\* X[lo:hi, :] for 0 <= lo, hi <= M
Slice(A, lo, hi) == [t \in 0..(hi - lo - 1) |-> A[lo + t]]

\* A[pp:pp+len(x_temp), :] = x_temp
Assign(A, pp, x_temp) ==
  [t \in DOMAIN A |-> IF pp <= t /\ t < pp + Size(x_temp) THEN x_temp[t - pp] ELSE A[t]]

RECURSIVE Reassemble_NoAdvance(_, _, _, _, _, _)
\* mutant: pp += len(x_temp) left out, every segment written at row 0
Reassemble_NoAdvance(A, s, ix, ii, pp, acc) ==
  IF ii = Size(ix) THEN acc
  ELSE LET x_temp == Slice(A, s[ix[ii]], s[ix[ii] + 1])
       IN Reassemble_NoAdvance(A, s, ix, ii + 1, pp, Assign(acc, pp, x_temp))

RECURSIVE Reassemble(_, _, _, _, _, _)
\* the loop over ii in range(nPerm), from ii on, pp rows of acc written so far
Reassemble(A, s, ix, ii, pp, acc) ==
  IF ii = Size(ix) THEN acc
  ELSE LET x_temp == Slice(A, s[ix[ii]], s[ix[ii] + 1])
       IN Reassemble(A, s, ix, ii + 1, pp + Size(x_temp), Assign(acc, pp, x_temp))

\* np.zeros(n, dtype=int)
ZerosVector(n) == [i \in 0..(n - 1) |-> 0]

\* lines 70-74: X_new allocated, the segment ordering idx drawn, the loop
\* entered and segs zeroed; "loop" is the position before line 75
permutation ==
  /\ op = "permutation" /\ pc = "call"
  /\ idx' \in RandomPermutation(nPerm)
  /\ X_new' = Zeros(M, N)
  /\ segs' = ZerosVector(nPerm + 1)
  /\ pc' = "loop"
  /\ UNCHANGED <<Args, err, tt, xx, outShape>>

\* lines 75-78, one pass of the while loop: the cut-points drawn, the segment
\* lengths tested; a failed test goes round to line 74, which zeroes segs again
permutation_loop ==
  /\ op = "permutation" /\ pc = "loop"
  /\ IF RandIntFails(minSegLength, M - minSegLength, nPerm - 1)
     THEN /\ err' = "ValueError"
          /\ pc' = "error"
          /\ UNCHANGED segs
     ELSE /\ \E cuts \in SortedDraws(minSegLength, M - minSegLength, nPerm - 1) :
               LET drawn == Boundaries(cuts, nPerm, M)
               IN IF Accepted(drawn, nPerm, minSegLength)
                  THEN segs' = drawn /\ pc' = "reassemble"
                  ELSE segs' = ZerosVector(nPerm + 1) /\ pc' = "loop"
          /\ UNCHANGED err
  /\ UNCHANGED <<Args, idx, tt, xx, X_new, outShape>>

\* lines 79-84: the segments copied in the order idx, X_new returned
permutation_reassemble ==
  /\ op = "permutation" /\ pc = "reassemble"
  /\ X_new' = Reassemble(X, segs, idx, 0, 0, X_new)
  /\ outShape' = Shape(X_new')
  /\ pc' = "done"
  /\ UNCHANGED <<Args, err, idx, segs, tt, xx>>

\* ----------------------------------------------------------- rand_sampling
\* a real value held exactly: <<numerator, denominator>>, denominator > 0
Rat(n, d) == <<n, d>>

RatEq(a, b) == a[1] * b[2] = b[1] * a[2]

\* np.interp(x, xp, fp) for one x: fp's end values outside [xp[0], xp[-1]],
\* else with j the last index with xp[j] <= x: fp[j] at the last point or when
\* xp[j] = x, else the value at x of the line through points j and j+1
Interp(x, xp, fp) ==
  LET n == Size(xp)
  IN IF x > xp[n - 1] THEN Rat(fp[n - 1], 1)
     ELSE IF x < xp[0] THEN Rat(fp[0], 1)
     ELSE LET j == Max({i \in 0..(n - 1) : xp[i] <= x})
          IN IF j = n - 1 \/ xp[j] = x THEN Rat(fp[j], 1)
             ELSE Rat(fp[j] * (xp[j + 1] - xp[j]) + (fp[j + 1] - fp[j]) * (x - xp[j]),
                      xp[j + 1] - xp[j])

\* tt[:, c]
Column(A, c) == [i \in DOMAIN A |-> A[i][c]]

\* mutant: the values of channel 0 taken for every channel (X[tt[:, c], 0])
SampledValues_WrongChannel(A, t, c) == [i \in DOMAIN t |-> A[t[i][c]][0]]

\* X[tt[:, c], c]
SampledValues(A, t, c) == [i \in DOMAIN t |-> A[t[i][c]][c]]

\* the position of rand_sample_timesteps before the statement that fills tt[1:-1, c]
SamplePc(c) == IF c = 0 THEN "call" ELSE IF c = 1 THEN "sample1" ELSE "sample2"

\* tt[1:-1, c] = d for the sorted draws d; after the last channel also
\* tt[-1, :] = M-1 (line 93)
SampleIndex(t, c, d, m) ==
  [i \in DOMAIN t |-> [k \in DOMAIN t[i] |->
     IF c = Channels - 1 /\ i = Size(t) - 1 THEN m - 1
     ELSE IF k = c /\ 0 < i /\ i < Size(t) - 1 THEN d[i]
     ELSE t[i][k]]]

\* rand_sample_timesteps, called at line 97: one of the lines 90-92, for
\* channel c; line 89 (tt = zeros((nSample, N))) goes with the first and
\* line 93 with the last
rand_sample_timesteps(c) ==
  /\ op = "rand_sampling" /\ pc = SamplePc(c)
  /\ IF RandIntFails(1, M - 1, nSample - 2)
     THEN /\ err' = "ValueError" /\ pc' = "error" /\ UNCHANGED tt
     ELSE IF c >= N
     THEN /\ err' = "IndexError" /\ pc' = "error" /\ UNCHANGED tt
     ELSE /\ \E d \in SortedDraws(1, M - 1, nSample - 2) :
               tt' = SampleIndex(IF c = 0 THEN Zeros(nSample, N) ELSE tt, c, d, M)
          /\ pc' = IF c = Channels - 1 THEN "interp" ELSE SamplePc(c + 1)
          /\ UNCHANGED err
  /\ UNCHANGED <<Args, idx, segs, xx, X_new, outShape>>

\* lines 98-102: each of the channels 0, 1, 2 interpolated back onto 0..M-1
rand_sampling ==
  /\ op = "rand_sampling" /\ pc = "interp"
  /\ X_new' = [t \in 0..(M - 1) |-> [c \in 0..(N - 1) |->
                 IF c < Channels
                 THEN Interp(t, Column(tt, c), SampledValues(X, tt, c))
                 ELSE Rat(0, 1)]]
  /\ outShape' = Shape(X_new')
  /\ pc' = "done"
  /\ UNCHANGED <<Args, err, idx, segs, tt, xx>>

Next ==
  \/ jitter \/ scaling \/ generate_random_curves \/ magnitude_warp
  \/ time_warp \/ rotation
  \/ permutation \/ permutation_loop \/ permutation_reassemble
  \/ (\E c \in 0..(Channels - 1) : rand_sample_timesteps(c))
  \/ rand_sampling

Spec == Init /\ [][Next]_vars

\* for termination: the calls on the window with distinct rows, with up to 3
\* channels (the positions a call goes through depend on X only by its shape,
\* and more than 3 channels are handled as 3 are until the result is formed)
FairInit == InitWith({"distinct"}, 1..Channels)

\* a call does not stop half-way and the draws are fair: while some step can
\* move the call on (a statement of straight-line code, or a pass of the retry
\* loop whose cut-points pass the test), such a step is eventually taken
FairSpec == FairInit /\ [][Next]_vars /\ WF_pc(Next)

\* ------------------------------------------------------------------ claims
Returned == pc = "done"
Raised == pc = "error"

\* the multiset of the rows of A
RowBag(A) ==
  [r \in {A[t] : t \in DOMAIN A} |-> Cardinality({t \in DOMAIN A : A[t] = r})]

\* C1: every public transform called on an M x 3 matrix with only X given
\* returns a matrix of X's shape.  (Stated for the transforms whose call takes
\* no other argument of the model.)
C1_ShapeInvariance ==
  (op \in {"jitter", "scaling", "time_warp", "rotation"} /\ N = Channels
     /\ (Returned \/ Raised))
  => (Returned /\ outShape = Shape(X))

\* C2: when permutation returns, the rows of the output are the rows of the
\* input, each exactly once (equal multisets of rows), in an array of X's shape.
C2_RowsPreserved ==
  (op = "permutation" /\ Returned)
  => (outShape = Shape(X) /\ RowBag(X_new) = RowBag(X))

\* C2 witness: a returned permutation that moved rows of a window with
\* pairwise distinct rows
C2_Witness ==
  /\ op = "permutation" /\ Returned /\ nPerm >= 2
  /\ X_new # X
  /\ \A t, u \in DOMAIN X : X[t] = X[u] => t = u

\* C3: with nPerm * minSegLength >= M permutation fails with an error instead
\* of staying in the retry loop: the call is never in the loop at a pass that
\* cannot raise.  (Stated for nPerm >= 2, where cut-points are drawn.)
C3_FailsNotRetries ==
  (op = "permutation" /\ nPerm >= 2 /\ nPerm * minSegLength >= M /\ pc = "loop")
  => ENABLED (permutation_loop /\ pc' = "error")

\* C4: a transform that hardcodes 3 channels never returns a result when
\* called with N # 3 channels.
C4_InvalidShapeRaised ==
  (op \in {"generate_random_curves", "time_warp", "rotation", "rand_sampling"}
     /\ N # Channels)
  => ~Returned

\* C5 as stated: with nPerm * (minSegLength + 1) >= M no draw passes the test,
\* so permutation never leaves its loop.  (Stated for nPerm >= 2, where
\* cut-points are drawn.)
C5_NoPartitionAtOrAbove ==
  (op = "permutation" /\ nPerm >= 2 /\ nPerm * (minSegLength + 1) >= M)
  => pc \notin {"reassemble", "done"}

\* C5 amended: with nPerm * (minSegLength + 1) > M no draw passes the test, so
\* permutation never leaves its loop and never returns.
C5_NoPartitionAbove ==
  (op = "permutation" /\ nPerm * (minSegLength + 1) > M)
  => pc \notin {"reassemble", "done"}

\* C5 witness: the loop is entered under such parameters and draws cut-points
C5_Witness ==
  /\ op = "permutation" /\ nPerm >= 2 /\ nPerm * (minSegLength + 1) > M
  /\ pc = "loop"
  /\ SortedDraws(minSegLength, M - minSegLength, nPerm - 1) # {}

\* C6: once permutation has left its retry loop, segs is an ordered partition
\* of [0, M): nPerm + 1 boundaries, segs[0] = 0, segs[nPerm] = M, strictly
\* increasing, every segment longer than minSegLength.
C6_SegsPartition ==
  (op = "permutation" /\ pc \in {"reassemble", "done"})
  => /\ DOMAIN segs = 0..nPerm
     /\ segs[0] = 0
     /\ segs[nPerm] = M
     /\ \A i \in 0..(nPerm - 1) :
          segs[i] < segs[i + 1] /\ segs[i + 1] - segs[i] > minSegLength

\* C6 witness: the loop left with several segments of unequal length
C6_Witness ==
  /\ op = "permutation" /\ pc = "reassemble"
  /\ nPerm >= 2 /\ minSegLength >= 1
  /\ segs[1] - segs[0] # segs[2] - segs[1]

\* C7: for each of the 3 channels the sample-index sequence has length
\* nSample, is non-decreasing, starts at 0, ends at M-1, has every interior
\* element in [1, M-1), and holds only row indices of X.
C7_SampleIndex ==
  (op = "rand_sampling" /\ pc \in {"interp", "done"})
  => \A c \in 0..(Channels - 1) :
       LET col == Column(tt, c)
       IN /\ DOMAIN col = 0..(nSample - 1)
          /\ \A i \in 0..(nSample - 2) : col[i] <= col[i + 1]
          /\ col[0] = 0
          /\ col[nSample - 1] = M - 1
          /\ \A i \in 1..(nSample - 2) : 1 <= col[i] /\ col[i] < M - 1
          /\ \A i \in 0..(nSample - 1) : col[i] \in DOMAIN X

\* C7 witness: rand_sample_timesteps returned sequences with interior elements
\* that differ between channels
C7_Witness ==
  /\ op = "rand_sampling" /\ pc = "interp" /\ nSample >= 3
  /\ tt[1][0] # tt[1][1]

\* C8: generate_random_curves places exactly knot+2 x-locations, spaced by
\* (M-1)/(knot+1), from 0 to M-1 (x-locations in units of 1/(knot+1)), for
\* every window of at least two timesteps.
C8_KnotLocations ==
  (op \in {"generate_random_curves", "magnitude_warp"} /\ pc # "call" /\ M >= 2)
  => /\ DOMAIN xx = 0..(knot + 1)
     /\ xx[0] = 0
     /\ xx[knot + 1] = (M - 1) * (knot + 1)
     /\ \A i \in 0..knot : xx[i + 1] - xx[i] = M - 1

\* a partition of [0, M) into nPerm segments longer than minSegLength exists
PartitionExists == nPerm * (minSegLength + 1) <= M

\* C9: under fair draws permutation returns whenever a valid partition exists,
\* and every other transform ends (returns or raises): the retry loop is the
\* only place a call can stay in forever.  (The transform and its arguments do
\* not change during a call, so the condition is read off the state reached.)
C9_Termination ==
  <>(IF op = "permutation" THEN PartitionExists => Returned ELSE Returned \/ Raised)

\* C9 witness: the loop at a pass that can reject its draw although a valid
\* partition exists
C9_Witness ==
  /\ op = "permutation" /\ PartitionExists /\ pc = "loop"
  /\ \E cuts \in SortedDraws(minSegLength, M - minSegLength, nPerm - 1) :
       ~Accepted(Boundaries(cuts, nPerm, M), nPerm, minSegLength)

\* C10: rand_sampling on an M x 3 matrix reproduces X at every sampled index
\* of every channel; so the first and the last row are reproduced, and so is a
\* channel whose sequence holds every index 0..M-1.
C10_SampledPointsKept ==
  (op = "rand_sampling" /\ Returned /\ N = Channels)
  => /\ \A c \in 0..(Channels - 1) : \A i \in 0..(nSample - 1) :
          RatEq(X_new[tt[i][c]][c], Rat(X[tt[i][c]][c], 1))
     /\ \A c \in 0..(Channels - 1) :
          /\ RatEq(X_new[0][c], Rat(X[0][c], 1))
          /\ RatEq(X_new[M - 1][c], Rat(X[M - 1][c], 1))
     /\ \A c \in 0..(Channels - 1) :
          {tt[i][c] : i \in 0..(nSample - 1)} = 0..(M - 1)
          => \A t \in 0..(M - 1) : RatEq(X_new[t][c], Rat(X[t][c], 1))

\* C10 witness: a returned call whose channel 0 sampled an index twice and
\* left another index out, the value there differing from X
C10_Witness ==
  /\ op = "rand_sampling" /\ Returned /\ N = Channels
  /\ \E i \in 1..(nSample - 2) : tt[i][0] = tt[i + 1][0]
  /\ \E t \in 0..(M - 1) : ~RatEq(X_new[t][0], Rat(X[t][0], 1))
====
